---------------------------- MODULE Spec2Model ----------------------------
(***************************************************************************)
(* A model of the lifecycle CLI (cxp-lifecycle-cli).                       *)
(*                                                                         *)
(*   - helpers/file.py   : load of a structured file and the injection of  *)
(*                         ${LC.VAR} placeholders (inject_env_into_schema) *)
(*   - deploy/deploy.py  : the upload pass of one deploy run               *)
(*                         (upload_services_config_to_s3 / upload_file),   *)
(*                         the deploy request that follows it, the checks  *)
(*                         of deploy before it (check_version_bump), and   *)
(*                         the status watcher (get_status)                 *)
(*   - validators.py,    : the credentials of the process and the          *)
(*     api_client.py       construction of an API client                   *)
(*   - register/register.py : register, with its retries and its rollback  *)
(*   - ms/ms.py          : grants create, delete and list                  *)
(*   - helpers/path_utils.py : join_s3_path                                *)
(*                                                                         *)
(* Each part has its own specification; the variables of the other parts   *)
(* rest at their idle values meanwhile.                                    *)
(*                                                                         *)
(* Text is modelled as a sequence of tokens: a token is either a literal   *)
(* chunk or the text "${ns.name}".  A parsed document is a tagged record   *)
(* [t, v]: a string (v = its tokens), a scalar, a list (v = its items) or  *)
(* a mapping (v = its <<key, value>> pairs in insertion order).            *)
(***************************************************************************)
EXTENDS Integers, Sequences, FiniteSets, TLC

VARIABLES
    \* ---- inject_env_into_schema, called on its own ----
    schema_path,      \* the file name, split at its dots
    data,             \* the document the file holds
    inj_env,          \* env_vars handed to the call
    injected_data,    \* replace_in_obj(data), or the error it raised
    injected,         \* the outcome of the call
    inj_pc,           \* "idle" | "ready" | "done"
    \* ---- upload_services_config_to_s3 ----
    config,           \* core_services: service -> the files of its folder
    env_vars,         \* the loaded env file of the target environment
    pc,               \* "idle" | "start" | "pool" | "returned" | "exited"
    deploy_all,       \* the --all flag
    services_to_deploy,
    services_payload, \* service -> key prefix
    upload_tasks,     \* the task list, in submission order
    next_task,        \* head of the executor's work queue
    tstate,           \* per task: "queued" | "running" | "presigned" | "done"
    result,           \* per task: <<>> (None) or <<failure message>>
    exec_count,       \* per task: how often a worker started it
    presign_resp,     \* per task: the statuses of its presigned-URL requests
    puts,             \* per task: the PUTs issued, [body, status]
    collected,        \* per task: how often the coordinator took its result
    completed_count,
    errors,           \* the coordinator's error list
    output,           \* the lines written to the terminal
    raised,           \* exit code raised inside the try block, -1 if none
    exit_code,        \* exit code of the process, -1 while it has none
    ret,              \* the returned (services_payload, services_to_deploy)
    deploy_posts,     \* the POST /msk/deploy requests deploy has sent
    \* ---- the process of one command: credentials, requests, terminal ----
    fs,               \* credentials file -> what the file holds
    general_config,   \* settings.general_config of the process
    sent,             \* the HTTP requests sent, in order
    stdout,           \* what the command wrote to the terminal, in order
    process_exit,     \* exit code of the process, -1 while it runs
    \* ---- deploy get-status ----
    w_pc,             \* "idle" | "start" | "reading" | "returned" | "exited"
    w_env,            \* whether env is one of ENVIRONMENTS
    watch,            \* the --watch flag
    event,            \* the frame the read loop is at
    frames_read,      \* frames received from the stream so far
    w_ret,            \* whether get_status has returned, and what
    \* ---- register ----
    r_pc,             \* "idle" | "start" | "fetch" | "create" | "rollback"
                      \*   | "save" | "returned" | "exited" | "crashed"
    r_env,            \* whether env is one of ENVIRONMENTS
    config_file,      \* lifecycle_config.yaml: its application_uid
    application_details,  \* the record the IAM create returned
    fetch_outcomes,   \* the attempts of _fetch_account_id, in order
    create_outcomes,  \* the attempts of _create, in order
    \* ---- ms grants create ----
    g_pc,             \* "idle" | "start" | "post" | "returned" | "exited"
    g_role,
    g_group,
    g_env,            \* whether env has a base URL
    g_creds_path,
    g_clients,        \* API clients constructed so far
    g_cmd,            \* the grants command that runs: create, delete, list
    g_status,         \* status code of the response, 0 before it arrives
    \* ---- join_s3_path, called on its own ----
    j_pc,             \* "idle" | "ready" | "done"
    j_parts,          \* the parts handed to the call
    j_key,            \* the string it returned
    \* ---- deploy, up to the upload pass ----
    d_pc,             \* "idle" | "start" | "checked" | "upload" | "exited"
    d_app_version,    \* app_version of the local config, split at its dots
    d_server,         \* what Developer Studio holds for the application
    d_meta,           \* the other metadata of the local config, as verdicts
    d_iam,            \* status of GET /cxp-iam/.../applications/{id}, 0: not sent
    d_ds,             \* status of GET /lifecycle/.../applications/{id}, 0: not sent
    d_validated,      \* is_metadata_update_valid has returned
    d_exit,           \* exit code of typer.Exit, -1 while none was raised
    \* ---- API clients constructed one after another in one process ----
    c_pc,             \* "idle" | "session" | "exited"
    clients           \* per client: its creds_path and the credentials it sends

injVars == <<schema_path, data, inj_env, injected_data, injected, inj_pc>>

clientVars == <<fs, general_config, sent, stdout, process_exit>>

watchVars == <<w_pc, w_env, watch, event, frames_read, w_ret>>

uploadInputs == <<config, env_vars>>

poolVars == <<next_task, tstate, result, exec_count, presign_resp, puts,
              collected, completed_count, errors>>

uploadVars == <<config, env_vars, pc, deploy_all, services_to_deploy,
                services_payload, upload_tasks, next_task, tstate, result,
                exec_count, presign_resp, puts, collected, completed_count,
                errors, output, raised, exit_code, ret, deploy_posts>>

regVars == <<r_pc, r_env, config_file, application_details, fetch_outcomes,
             create_outcomes>>

grantVars == <<g_pc, g_role, g_group, g_env, g_creds_path, g_clients, g_cmd,
              g_status>>

joinVars == <<j_pc, j_parts, j_key>>

frontVars == <<d_pc, d_app_version, d_server, d_meta, d_iam, d_ds, d_validated,
              d_exit>>

sessVars == <<c_pc, clients>>

restVars == <<joinVars, frontVars, sessVars>>

nonInjectVars == <<uploadVars, clientVars, watchVars, regVars, grantVars,
                  restVars>>

nonUploadVars == <<injVars, clientVars, watchVars, regVars, grantVars,
                  restVars>>

nonWatchVars == <<injVars, uploadVars, regVars, grantVars, restVars>>

nonRegVars == <<injVars, uploadVars, watchVars, grantVars, restVars>>

nonGrantVars == <<injVars, uploadVars, watchVars, regVars, restVars>>

nonJoinVars == <<injVars, uploadVars, clientVars, watchVars, regVars,
                grantVars, frontVars, sessVars>>

nonFrontVars == <<injVars, uploadVars, clientVars, watchVars, regVars,
                 grantVars, joinVars, sessVars>>

nonSessVars == <<injVars, uploadVars, watchVars, regVars, grantVars, joinVars,
                frontVars>>

-----------------------------------------------------------------------------
(* Bounds of the model *)

MaxStrLen == 2        \* tokens per top-level string value
MaxItems == 2         \* items per list / mapping
MaxParts == 2         \* parts handed to one join_s3_path call
MaxPartLen == 2       \* chunks per part
MaxClients == 3       \* API clients one process constructs

-----------------------------------------------------------------------------
(* Text and documents *)

Lit(x) == [kind |-> "lit", ns |-> "", name |-> x]
Ph(ns, n) == [kind |-> "ph", ns |-> ns, name |-> n]

\* "x", "${LC.A}", "${LC.B}", "${XX.A}" and "${LC.}"
Tokens == {Lit("x"), Ph("LC", "A"), Ph("LC", "B"), Ph("XX", "A"), Ph("LC", "")}

VarNames == {"A", "B"}

SeqUpTo(S, n) == UNION {[1..k -> S] : k \in 0..n}

Str(s) == [t |-> "str", v |-> s]
Scalar(x) == [t |-> "scalar", v |-> <<Lit(x)>>]
List(items) == [t |-> "list", v |-> items]
Dict(pairs) == [t |-> "dict", v |-> pairs]
NullDoc == [t |-> "null", v |-> <<>>]

Keys == {"k1", "k2"}

Strings == SeqUpTo(Tokens, MaxStrLen)
Leaves == {Str(s) : s \in Strings} \cup {Scalar("42")}
SmallLeaves == {Str(s) : s \in SeqUpTo(Tokens, 1)} \cup {Scalar("42")}

ListsOf(S) == {List(items) : items \in SeqUpTo(S, MaxItems)}

DictsOf(S) ==
    {Dict(pairs) : pairs \in
        {p \in SeqUpTo(Keys \X S, MaxItems) :
            \A i, j \in 1..Len(p) : i # j => p[i][1] # p[j][1]}}

Containers == ListsOf(SmallLeaves) \cup DictsOf(SmallLeaves)

\* documents of nesting depth 0, 1 and 2
Docs ==
    Leaves \cup Containers
        \cup {List(<<d>>) : d \in Containers}
        \cup {Dict(<<<<"k1", d>>>>) : d \in Containers}

\* the values an env file gives a variable; the second one is itself the
\* text of a placeholder
EnvValues == {<<Lit("v")>>, <<Ph("LC", "B")>>}

Envs == UNION {[D -> EnvValues] : D \in SUBSET VarNames}

-----------------------------------------------------------------------------
(* helpers/file.py *)

Ok(x) == [err |-> <<>>, val |-> x]
Raise(msg) == [err |-> <<msg>>, val |-> NullDoc]
Raised(r) == r.err # <<>>

\* the pattern r"\$\{LC\.([A-Za-z0-9_]+)\}"
PatternMatchesAnyNamespace(tok) == tok.kind = "ph" /\ tok.name # ""
PatternMatches(tok) == tok.kind = "ph" /\ tok.ns = "LC" /\ tok.name # ""

\* replacer(match): the value of the variable, or ValueError naming it
replacer(tok, env) ==
    IF tok.name \in DOMAIN env
    THEN Ok(env[tok.name])
    ELSE Raise(tok.name)

\* re.sub(pattern, replacer, obj): matches are replaced from left to right,
\* the replacement text is not scanned again
RECURSIVE re_sub(_, _)
re_sub(s, env) ==
    IF s = <<>> THEN Ok(<<>>)
    ELSE LET tok == Head(s)
             first == IF PatternMatches(tok) THEN replacer(tok, env)
                      ELSE Ok(<<tok>>)
         IN IF Raised(first) THEN first
            ELSE LET rest == re_sub(Tail(s), env)
                 IN IF Raised(rest) THEN rest
                    ELSE Ok(first.val \o rest.val)

RECURSIVE replace_in_obj(_, _)
RECURSIVE replace_in_items(_, _, _)

\* the comprehension over a list's items or a mapping's (k, v) pairs, in order
replace_in_items(items, env, isDict) ==
    IF items = <<>> THEN Ok(<<>>)
    ELSE LET first == replace_in_obj(IF isDict THEN Head(items)[2]
                                     ELSE Head(items), env)
         IN IF Raised(first) THEN first
            ELSE LET rest == replace_in_items(Tail(items), env, isDict)
                 IN IF Raised(rest) THEN rest
                    ELSE Ok(<<IF isDict THEN <<Head(items)[1], first.val>>
                              ELSE first.val>> \o rest.val)

replace_in_obj(obj, env) ==
    IF obj.t = "dict" THEN
        LET r == replace_in_items(obj.v, env, TRUE)
        IN IF Raised(r) THEN r ELSE Ok(Dict(r.val))
    ELSE IF obj.t = "list" THEN
        LET r == replace_in_items(obj.v, env, FALSE)
        IN IF Raised(r) THEN r ELSE Ok(List(r.val))
    ELSE IF obj.t = "str" THEN
        LET r == re_sub(obj.v, env)
        IN IF Raised(r) THEN r ELSE Ok(Str(r.val))
    ELSE Ok(obj)

\* file names, split at their dots: "conn.example.json" is
\* <<"conn", "example", "json">>
endswith(name, ext) == Len(name) >= 2 /\ name[Len(name)] = ext

\* a serialised or raw file content: fmt says how doc was written out
Content(fmt, doc) == [fmt |-> fmt, doc |-> doc]
EmptyText == Content("empty", NullDoc)

\* inject_env_into_schema(schema_path, env_vars) on a file holding `doc`.
\* A name with none of the three extensions leaves `data` unbound, and the
\* use of it raises.
inject_env_into_schema(name, doc, env) ==
    IF ~(endswith(name, "yaml") \/ endswith(name, "yml") \/ endswith(name, "json"))
    THEN Raise("data")
    ELSE LET r == replace_in_obj(doc, env)
         IN IF Raised(r) THEN r
            ELSE IF endswith(name, "json") THEN Ok(Content("json", r.val))
            ELSE IF endswith(name, "yaml") THEN Ok(Content("yaml", r.val))
            ELSE Ok(EmptyText)

-----------------------------------------------------------------------------
(* inject_env_into_schema called on every file name, document and env *)

SchemaNames == {<<"s", "json">>, <<"s", "yaml">>, <<"s", "yml">>}

InjInit ==
    /\ schema_path \in SchemaNames
    /\ data \in Docs
    /\ inj_env \in Envs
    /\ injected_data = Ok(NullDoc)
    /\ injected = Ok(EmptyText)
    /\ inj_pc = "ready"

InjIdle ==
    /\ schema_path = <<"s", "json">>
    /\ data = NullDoc
    /\ inj_env = <<>>
    /\ injected_data = Ok(NullDoc)
    /\ injected = Ok(EmptyText)
    /\ inj_pc = "idle"

InjectCall ==
    /\ inj_pc = "ready"
    /\ injected_data' = replace_in_obj(data, inj_env)
    /\ injected' = inject_env_into_schema(schema_path, data, inj_env)
    /\ inj_pc' = "done"
    /\ UNCHANGED <<schema_path, data, inj_env>>
    /\ UNCHANGED nonInjectVars

-----------------------------------------------------------------------------
(* Paths and storage keys.  A path is a sequence of chunks; a chunk is a   *)
(* separator or a file / directory name split at its dots.                 *)

SLASH == <<"/">>
BACKSLASH == <<"\\">>

\* str.strip("/")
RECURSIVE lstrip(_)
lstrip(p) == IF p # <<>> /\ Head(p) = SLASH THEN lstrip(Tail(p)) ELSE p

RECURSIVE rstrip(_)
rstrip(p) ==
    IF p # <<>> /\ p[Len(p)] = SLASH THEN rstrip(SubSeq(p, 1, Len(p) - 1))
    ELSE p

strip(p) == rstrip(lstrip(p))

\* str.replace("\\", "/")
to_forward(p) == [i \in 1..Len(p) |-> IF p[i] = BACKSLASH THEN SLASH ELSE p[i]]

\* "/".join(normalized_parts)
RECURSIVE join(_)
join(parts) ==
    IF parts = <<>> THEN <<>>
    ELSE IF Len(parts) = 1 THEN Head(parts)
    ELSE Head(parts) \o <<SLASH>> \o join(Tail(parts))

\* join_s3_path(*parts)
join_s3_path(parts) ==
    join([i \in 1..Len(parts) |-> strip(to_forward(parts[i]))])

\* the chunks of the parts of a call on its own: both separators, a name
\* and a name with an extension
JoinChunks == {SLASH, BACKSLASH, <<"a">>, <<"b", "txt">>}
JoinPartStrings == UNION {[1..n -> JoinChunks] : n \in 0..MaxPartLen}
JoinInputs == UNION {[1..n -> JoinPartStrings] : n \in 0..MaxParts}

JoinIdle ==
    /\ j_pc = "idle"
    /\ j_parts = <<>>
    /\ j_key = <<>>

JoinInit ==
    /\ j_pc = "ready"
    /\ j_parts \in JoinInputs
    /\ j_key = <<>>

\* one call join_s3_path(*parts) with string parts
JoinCall ==
    /\ j_pc = "ready"
    /\ j_key' = join_s3_path(j_parts)
    /\ j_pc' = "done"
    /\ UNCHANGED j_parts
    /\ UNCHANGED nonJoinVars

\* os.path.join(dir..., file) / os.path.relpath: the components with os.sep
\* between them
RECURSIVE os_join(_, _)
os_join(comps, sep) ==
    IF comps = <<>> THEN <<>>
    ELSE IF Len(comps) = 1 THEN <<Head(comps)>>
    ELSE <<Head(comps), sep>> \o os_join(Tail(comps), sep)

CONFIG_FILE == <<"lifecycle_config", "yaml">>
APP_ID == <<"app">>
DEPLOYMENT_ID == <<"run">>

-----------------------------------------------------------------------------
(* The local project: services, their folders and the files in them *)

ServiceOrder == <<"alpha", "beta">>
Services == {ServiceOrder[i] : i \in 1..Len(ServiceOrder)}

File(dir, name, doc) == [dir |-> dir, name |-> name, content |-> doc]

\* the files a service folder may hold, in the order os.walk lists them
FileOrder ==
    << File(<<>>, <<"conn", "json">>,
            Dict(<< <<"k1", Str(<<Ph("LC", "A")>>)>> >>)),
       File(<<>>, <<"conn", "example", "json">>, Str(<<Lit("x")>>)),
       File(<<>>, <<"tbl", "yaml">>, List(<<Str(<<Ph("LC", "B")>>)>>)),
       File(<< <<"sub">> >>, <<"etl", "yml">>, Str(<<Lit("x"), Ph("LC", "B")>>)),
       File(<<>>, <<"notes", "txt">>, Str(<<Ph("LC", "A")>>)) >>

\* which of them each service's folder may hold
FolderFiles ==
    [s \in Services |->
        IF s = "alpha" THEN {FileOrder[1], FileOrder[3], FileOrder[4]}
        ELSE {FileOrder[2], FileOrder[5]}]

MaxFiles == 4         \* files in all the service folders together

RECURSIVE TotalFiles(_, _)
TotalFiles(c, D) ==
    IF D = {} THEN 0
    ELSE LET s == CHOOSE x \in D : TRUE
         IN Cardinality(c[s]) + TotalFiles(c, D \ {s})

\* core_services of the manifest, with the content of each folder
Configs ==
    UNION {{c \in [D -> SUBSET {FileOrder[i] : i \in 1..Len(FileOrder)}] :
                /\ \A s \in D : c[s] \subseteq FolderFiles[s]
                /\ TotalFiles(c, D) <= MaxFiles} :
           D \in SUBSET Services}

\* the env file of the target environment defines A and leaves B undefined
UploadEnvs == {[x \in {"A"} |-> <<Lit("v")>>]}

\* the manifest lifecycle/lifecycle_config.yaml
ManifestDoc == Dict(<< <<"k1", Str(<<Lit("x")>>)>> >>)

\* the separator of the platform the CLI runs on
OS_SEP == SLASH

InSeq(seq, S) == SelectSeq(seq, LAMBDA x : x \in S)

\* list(config.get("core_services", {}).keys())
all_services_of(cfg) == InSeq(ServiceOrder, DOMAIN cfg)

\* os.walk(folder_path): every file below the folder
walk(cfg, service) == InSeq(FileOrder, cfg[service])

\* the answers questionary.checkbox(...).ask() can give: None, or the
\* checked services in the order of the choices
None == [cancelled |-> TRUE, checked |-> <<>>]
Answers(all) ==
    {None} \cup {[cancelled |-> FALSE, checked |-> InSeq(all, S)] :
                    S \in SUBSET {all[i] : i \in 1..Len(all)}}

-----------------------------------------------------------------------------
(* deploy/deploy.py: building the task list *)

key_prefix_of(service) ==
    join_s3_path(<< <<<<"lifecycle">>>>, <<APP_ID>>, <<DEPLOYMENT_ID>>,
                    <<<<service>>>> >>)

Task(service, folder, f, key) ==
    [service |-> service, folder |-> folder, file |-> f, s3_key |-> key]

\* the inner loops of lines 113-127 for one service
service_tasks(cfg, service) ==
    LET files == walk(cfg, service)
    IN [i \in 1..Len(files) |->
          LET relative_path == os_join(files[i].dir \o <<files[i].name>>, OS_SEP)
          IN Task(service, service, files[i],
                  join_s3_path(<<key_prefix_of(service), relative_path>>))]

RECURSIVE collect_tasks(_, _)
collect_tasks(cfg, services) ==
    IF services = <<>> THEN <<>>
    ELSE service_tasks(cfg, Head(services)) \o collect_tasks(cfg, Tail(services))

\* the task appended at lines 138-147
manifest_task ==
    Task("lifecycle", "lifecycle", File(<<>>, CONFIG_FILE, ManifestDoc),
         join_s3_path(<< <<<<"lifecycle">>>>, <<APP_ID>>, <<DEPLOYMENT_ID>>,
                         <<CONFIG_FILE>> >>))

build_upload_tasks_manifest_first(cfg, services) ==
    <<manifest_task>> \o collect_tasks(cfg, services)
build_upload_tasks(cfg, services) ==
    collect_tasks(cfg, services) \o <<manifest_task>>

\* services_payload[service] = {"configuration_file_path": key_prefix}
build_services_payload(services) ==
    [s \in {services[i] : i \in 1..Len(services)} |-> key_prefix_of(s)]

\* `except Exception` of lines 231-233: typer.Exit is a RuntimeError, so
\* every exit raised inside the try block, whatever its code, leaves as
\* Exit(1)
except_Exception(code) == 1

EmptyReturn == [payload |-> <<>>, services |-> <<>>]

UploadIdle ==
    /\ config = <<>>
    /\ env_vars = <<>>
    /\ pc = "idle"
    /\ deploy_all = FALSE
    /\ services_to_deploy = <<>>
    /\ services_payload = <<>>
    /\ upload_tasks = <<>>
    /\ next_task = 1
    /\ tstate = <<>>
    /\ result = <<>>
    /\ exec_count = <<>>
    /\ presign_resp = <<>>
    /\ puts = <<>>
    /\ collected = <<>>
    /\ completed_count = 0
    /\ errors = <<>>
    /\ output = <<>>
    /\ raised = -1
    /\ exit_code = -1
    /\ ret = EmptyReturn
    /\ deploy_posts = <<>>

UploadInit ==
    /\ config \in Configs
    /\ env_vars \in UploadEnvs
    /\ pc = "start"
    /\ deploy_all = FALSE
    /\ services_to_deploy = <<>>
    /\ services_payload = <<>>
    /\ upload_tasks = <<>>
    /\ next_task = 1
    /\ tstate = <<>>
    /\ result = <<>>
    /\ exec_count = <<>>
    /\ presign_resp = <<>>
    /\ puts = <<>>
    /\ collected = <<>>
    /\ completed_count = 0
    /\ errors = <<>>
    /\ output = <<>>
    /\ raised = -1
    /\ exit_code = -1
    /\ ret = EmptyReturn
    /\ deploy_posts = <<>>

-----------------------------------------------------------------------------
(* deploy/deploy.py: upload_services_config_to_s3 *)

\* ThreadPoolExecutor(max_workers=4), line 198
max_workers_one_per_task == Len(upload_tasks)
max_workers == 4

PresignStatuses == {200, 500}
PutStatuses == {200, 403}

\* `if response.status_code != 200`, line 157
presign_only_4xx_fails(status) == status >= 400 /\ status < 500
presign_failed(status) == status # 200

\* `if upload_response.status_code != 200`, line 187
put_failed(status) == status # 200

Msg(kind, task, text) == [kind |-> kind, task |-> task, text |-> text]

Tasks == 1..Len(upload_tasks)

\* leave the function through `raise typer.Exit(code)` inside the try block
ExitFromTry(code, lines) ==
    /\ raised' = code
    /\ exit_code' = except_Exception(code)
    /\ output' = output \o lines \o <<Msg("An error occurred", 0, "")>>
    /\ pc' = "exited"

\* an exception other than typer.Exit inside the try block
FailInTry(lines) ==
    /\ raised' = raised
    /\ exit_code' = 1
    /\ output' = output \o lines \o <<Msg("An error occurred", 0, "")>>
    /\ pc' = "exited"

\* lines 38-147 and the submission of every task at lines 198-201.
\* load_ok: the manifest and the env file can be read; creds_ok: the
\* credentials file passes validate_creds; da: --all; ans: the checkbox answer
Prepare ==
    /\ pc = "start"
    /\ \E load_ok, creds_ok, da \in BOOLEAN :
       \E ans \in Answers(all_services_of(config)) :
        LET all_services == all_services_of(config)
            selected == IF da THEN all_services ELSE ans.checked
            tasks == build_upload_tasks(config, selected)
        IN
        /\ deploy_all' = da
        /\ IF ~load_ok THEN
                /\ FailInTry(<<>>)
                /\ UNCHANGED <<services_to_deploy, services_payload,
                               upload_tasks, poolVars, ret>>
           ELSE IF ~da /\ all_services = <<>> THEN
                /\ output' = output \o <<Msg("No core services found", 0, "")>>
                /\ ret' = EmptyReturn
                /\ pc' = "returned"
                /\ UNCHANGED <<services_to_deploy, services_payload,
                               upload_tasks, poolVars, raised, exit_code>>
           ELSE IF ~da /\ ans.cancelled THEN
                /\ ExitFromTry(0, <<Msg("Deployment cancelled", 0, "")>>)
                /\ UNCHANGED <<services_to_deploy, services_payload,
                               upload_tasks, poolVars, ret>>
           ELSE IF selected = <<>> THEN
                /\ services_to_deploy' = selected
                /\ ExitFromTry(0, <<Msg("No services selected", 0, "")>>)
                /\ UNCHANGED <<services_payload, upload_tasks, poolVars, ret>>
           ELSE IF ~creds_ok THEN
                /\ services_to_deploy' = selected
                /\ ExitFromTry(1, <<Msg("Selected services", 0, "")>>)
                /\ UNCHANGED <<services_payload, upload_tasks, poolVars, ret>>
           ELSE
                /\ services_to_deploy' = selected
                /\ services_payload' = build_services_payload(selected)
                /\ upload_tasks' = tasks
                /\ next_task' = 1
                /\ tstate' = [t \in 1..Len(tasks) |-> "queued"]
                /\ result' = [t \in 1..Len(tasks) |-> <<>>]
                /\ exec_count' = [t \in 1..Len(tasks) |-> 0]
                /\ presign_resp' = [t \in 1..Len(tasks) |-> <<>>]
                /\ puts' = [t \in 1..Len(tasks) |-> <<>>]
                /\ collected' = [t \in 1..Len(tasks) |-> 0]
                /\ output' = output \o <<Msg("Selected services", 0, ""),
                                         Msg("Uploading", 0, "")>>
                /\ pc' = "pool"
                /\ UNCHANGED <<completed_count, errors, raised, exit_code, ret>>
    /\ UNCHANGED <<uploadInputs, nonUploadVars, deploy_posts>>

Running == {t \in Tasks : tstate[t] \in {"running", "presigned"}}

\* a worker of the pool takes the next work item off the queue
StartTask ==
    /\ pc = "pool"
    /\ next_task <= Len(upload_tasks)
    /\ Cardinality(Running) < max_workers
    /\ tstate' = [tstate EXCEPT ![next_task] = "running"]
    /\ exec_count' = [exec_count EXCEPT ![next_task] = @ + 1]
    /\ next_task' = next_task + 1
    /\ UNCHANGED <<uploadInputs, nonUploadVars, deploy_posts, pc, deploy_all, services_to_deploy,
                   services_payload, upload_tasks, result, presign_resp, puts,
                   collected, completed_count, errors, output, raised,
                   exit_code, ret>>

\* upload_file, lines 152-158: the presigned-URL request and its status check
Presign(t) ==
    /\ pc = "pool"
    /\ tstate[t] = "running"
    /\ \E status \in PresignStatuses :
        /\ presign_resp' = [presign_resp EXCEPT ![t] = Append(@, status)]
        /\ IF presign_failed(status)
           THEN /\ result' = [result EXCEPT ![t] =
                       <<Msg("Failed to generate presigned URL", t, "")>>]
                /\ tstate' = [tstate EXCEPT ![t] = "done"]
           ELSE /\ tstate' = [tstate EXCEPT ![t] = "presigned"]
                /\ UNCHANGED result
    /\ UNCHANGED <<uploadInputs, nonUploadVars, deploy_posts, pc, deploy_all, services_to_deploy,
                   services_payload, upload_tasks, next_task, exec_count, puts,
                   collected, completed_count, errors, output, raised,
                   exit_code, ret>>

\* what upload_file hands to requests.put, lines 161-185: the injected
\* content for a name ending in .json or .yaml, the open file otherwise
put_body(task, env) ==
    LET file_name == task.file.name
    IN IF endswith(file_name, "json") \/ endswith(file_name, "yaml")
       THEN inject_env_into_schema(file_name, task.file.content, env)
       ELSE Ok(Content("raw", task.file.content))

\* upload_file, lines 160-192: the PUT and its status check; an exception
\* before the PUT ends the task with "Error uploading ..."
Put(t) ==
    /\ pc = "pool"
    /\ tstate[t] = "presigned"
    /\ LET body == put_body(upload_tasks[t], env_vars)
       IN IF Raised(body)
          THEN /\ result' = [result EXCEPT ![t] =
                      <<Msg("Error uploading", t, body.err[1])>>]
               /\ UNCHANGED puts
          ELSE \E status \in PutStatuses :
               /\ puts' = [puts EXCEPT ![t] =
                      Append(@, [body |-> body.val, status |-> status])]
               /\ result' = [result EXCEPT ![t] =
                      IF put_failed(status) THEN <<Msg("Upload failed", t, "")>>
                      ELSE <<>>]
    /\ tstate' = [tstate EXCEPT ![t] = "done"]
    /\ UNCHANGED <<uploadInputs, nonUploadVars, deploy_posts, pc, deploy_all, services_to_deploy,
                   services_payload, upload_tasks, next_task, exec_count,
                   presign_resp, collected, completed_count, errors, output,
                   raised, exit_code, ret>>

\* `if result is None ... else: errors.append(result)`, lines 208-214
errors_keep_last(errs, res) == IF res = <<>> THEN errs ELSE <<res[1]>>
errors_after(errs, res) == IF res = <<>> THEN errs ELSE Append(errs, res[1])

\* one iteration of `for future in as_completed(future_to_task)`,
\* lines 203-218
Collect(t) ==
    /\ pc = "pool"
    /\ tstate[t] = "done"
    /\ collected[t] = 0
    /\ collected' = [collected EXCEPT ![t] = @ + 1]
    /\ completed_count' = completed_count + 1
    /\ errors' = errors_after(errors, result[t])
    /\ UNCHANGED <<uploadInputs, nonUploadVars, deploy_posts, pc, deploy_all, services_to_deploy,
                   services_payload, upload_tasks, next_task, tstate, result,
                   exec_count, presign_resp, puts, output, raised, exit_code,
                   ret>>

\* the loop of line 203 ends when as_completed has yielded every future
stop_at_first_error == errors # <<>> \/ \A t \in Tasks : collected[t] > 0
as_completed_exhausted == \A t \in Tasks : collected[t] > 0

\* lines 220-235
Decide ==
    /\ pc = "pool"
    /\ as_completed_exhausted
    /\ IF errors # <<>>
       THEN /\ ExitFromTry(1, <<Msg("Upload errors:", 0, "")>> \o errors)
            /\ UNCHANGED ret
       ELSE /\ output' = Append(output, Msg("Successfully uploaded all", 0, ""))
            /\ ret' = [payload |-> services_payload,
                       services |-> services_to_deploy]
            /\ pc' = "returned"
            /\ UNCHANGED <<raised, exit_code>>
    /\ UNCHANGED <<uploadInputs, nonUploadVars, deploy_posts,
                   deploy_all, services_to_deploy,
                   services_payload, upload_tasks, poolVars>>

DeployStatuses == {200, 500}

\* deploy, lines 449-478: the upload pass has returned its pair, the
\* payload is built from it and posted; a refusal is reported and deploy
\* returns all the same
DeployRequest ==
    /\ pc = "returned"
    /\ deploy_posts' = Append(deploy_posts,
          [url |-> "/msk/deploy", services |-> ret.payload])
    /\ \E status \in DeployStatuses :
         output' = output \o
            << Msg("Deploying services", 0, ""),
               IF status # 200
               THEN Msg("Failed to initiate deployment", 0, "")
               ELSE Msg("initiated successfully", 0, "") >>
    /\ pc' = "deployed"
    /\ UNCHANGED <<uploadInputs, nonUploadVars, deploy_all, services_to_deploy,
                   services_payload, upload_tasks, poolVars, raised, exit_code,
                   ret>>

UploadNext ==
    \/ Prepare
    \/ StartTask
    \/ \E t \in Tasks : Presign(t)
    \/ \E t \in Tasks : Put(t)
    \/ \E t \in Tasks : Collect(t)
    \/ Decide
    \/ DeployRequest

-----------------------------------------------------------------------------
(* settings.py, validators.py, helpers/api_client.py: the credentials of   *)
(* the process and the construction of an API client                       *)

\* creds_path=None of APIClient and validate_creds
NoPath == "<None>"
\* general_config.creds_filename as settings.py sets it
DefaultCredsFile == "~/.cx-cli/credentials.json"
CustomCredsFile == "custom.json"
CredsDir == "credsdir"
DirCredsFile == "credsdir/credentials.json"

CredFiles == {DefaultCredsFile, CustomCredsFile, DirCredsFile}
CredsPaths == {NoPath, CustomCredsFile, CredsDir}

\* what a credentials file can hold: a mapping under serviceAccounts (with
\* entries, or empty), no file at all, text that is not JSON, JSON that is
\* not an object, an object without the key, a value that is not a mapping
GoodFiles == {"valid", "empty_map"}
BadFiles == {"missing", "not_json", "not_object", "no_key", "not_mapping"}
FileKinds == GoodFiles \cup BadFiles

\* cx_cli_service_accounts_credentials: {} or the serviceAccounts of a file
EmptyCreds == <<>>
service_accounts(file_path, kind) ==
    IF kind = "valid" THEN <<file_path>> ELSE EmptyCreds

FreshConfig ==
    [creds_filename |-> DefaultCredsFile,
     credentials |-> EmptyCreds,
     last_validated_path |-> NoPath]

\* creds_existance(file_path): the settings it leaves and the exception it
\* raises ("" when it returns True)
creds_existance(gc, files, file_path) ==
    LET cleared == IF file_path # gc.creds_filename
                   THEN [gc EXCEPT !.credentials = EmptyCreds]
                   ELSE gc
        kind == files[file_path]
    IN  IF kind = "missing"
        THEN [gc |-> cleared, exc |-> "FileNotFoundError"]
        ELSE IF kind \in {"not_json", "not_object", "no_key", "not_mapping"}
        THEN [gc |-> cleared, exc |-> "FileStructureError"]
        ELSE [gc |-> [cleared EXCEPT
                        !.credentials = service_accounts(file_path, kind),
                        !.creds_filename = file_path],
              exc |-> ""]

is_dir(path) == path = CredsDir

\* validate_creds(creds_path): the settings it leaves and the exit code it
\* raises (-1 when it returns)
validate_creds(gc, files, creds_path) ==
    IF creds_path = gc.last_validated_path /\ gc.credentials # EmptyCreds
    THEN [gc |-> gc, exit |-> -1, exc |-> ""]
    ELSE LET file_path ==
                 IF creds_path # NoPath
                 THEN IF is_dir(creds_path) THEN DirCredsFile ELSE creds_path
                 ELSE gc.creds_filename
             r == creds_existance(gc, files, file_path)
         IN  IF r.exc = ""
             THEN [gc |-> [r.gc EXCEPT !.last_validated_path = creds_path],
                   exit |-> -1, exc |-> ""]
             ELSE [gc |-> r.gc, exit |-> 1, exc |-> r.exc]

\* APIClient(creds_path=...): validate_creds, then the session with the
\* X-ServiceCredentials header
APIClient(gc, files, creds_path) ==
    LET v == validate_creds(gc, files, creds_path)
    IN  [gc |-> v.gc, exit |-> v.exit, exc |-> v.exc,
         service_credentials |-> v.gc.credentials]

Request(method, url, body) == [method |-> method, url |-> url, body |-> body]

Line(msg, services) == [msg |-> msg, services |-> services]

ClientIdle ==
    /\ fs = [f \in CredFiles |-> "missing"]
    /\ general_config = FreshConfig
    /\ sent = <<>>
    /\ stdout = <<>>
    /\ process_exit = -1

-----------------------------------------------------------------------------
(* deploy/deploy.py: get_status, _display_deployment_status *)

MaxFrames == 3        \* frames the stream delivers in one watch

ServiceNames == <<"svc1", "svc2">>
Statuses == {"In Progress", "Done", "Failed", "Validation Failed"}

\* a services mapping {service: {deployment_status: ...}}, as the pairs
\* <<service, deployment_status>> in the order of ServiceNames
ServicesMaps ==
    {<<>>}
      \cup {<< <<ServiceNames[i], st>> >> : i \in 1..2, st \in Statuses}
      \cup {<< <<ServiceNames[1], a>>, <<ServiceNames[2], b>> >> :
                a \in Statuses, b \in Statuses}

\* the services a frame of another shape may carry besides its marker
MarkerServices == {<<>>, << <<"svc1", "Done">> >>}

Event(kind, services) == [kind |-> kind, services |-> services]
NoEvent == Event("none", <<>>)

\* event.data of one frame: nothing; text that is not JSON; JSON that is
\* not an object; {"info": "Connection closed ..."}; {"info": other};
\* {"error": "Deployment not found"}; {"error": other}; {"services": ...}
Events ==
    {Event(k, <<>>) : k \in {"empty", "malformed", "not_object", "info", "error"}}
      \cup {Event(k, m) : k \in {"closed", "not_found"}, m \in MarkerServices}
      \cup {Event("services", m) : m \in ServicesMaps}

\* any(data.get("deployment_status") == "Validation Failed" ...)
all_terminal_stops(services) ==
    \A i \in 1..Len(services) : services[i][2] # "In Progress"
has_validation_failed(services) ==
    \E i \in 1..Len(services) : services[i][2] = "Validation Failed"

\* the services a frame puts on the screen (lines 567-575)
skip_services_shown_done(services, shown) ==
    SelectSeq(services, LAMBDA p :
        ~ \E i \in 1..Len(shown) :
              shown[i][1] = p[1] /\ shown[i][2] # "In Progress")
displayed_services(services, shown) == services

\* the services mapping of the last screen written
RECURSIVE last_screen(_)
last_screen(lines) ==
    IF lines = <<>> THEN <<>>
    ELSE IF lines[Len(lines)].msg = "screen" THEN lines[Len(lines)].services
    ELSE last_screen(SubSeq(lines, 1, Len(lines) - 1))

\* except json.JSONDecodeError inside the loop: the frame is reported and
\* the loop goes on
parse_error_breaks == "returned"
on_JSONDecodeError == "reading"

\* the exit code of a command function that returns
returns_normally == 0

\* what get_status returns (-> None on every path): no snapshot
return_last_snapshot(lines) == last_screen(lines)
get_status_return(lines) == <<>>

NotReturned == [returned |-> FALSE, value |-> <<>>]
Returned(value) == [returned |-> TRUE, value |-> value]

\* `break` on the frame {"error": "Deployment not found"} (line 538)
not_found_continues == "reading"
on_deployment_not_found == "returned"

WatchIdle ==
    /\ w_pc = "idle"
    /\ w_env = TRUE
    /\ watch = FALSE
    /\ event = NoEvent
    /\ frames_read = 0
    /\ w_ret = NotReturned

WatchInit ==
    /\ fs \in {[f \in CredFiles |->
                  IF f = DefaultCredsFile THEN k ELSE "missing"] : k \in FileKinds}
    /\ general_config = FreshConfig
    /\ sent = <<>>
    /\ stdout = <<>>
    /\ process_exit = -1
    /\ w_pc = "start"
    /\ w_env \in BOOLEAN
    /\ watch \in BOOLEAN
    /\ event = NoEvent
    /\ frames_read = 0
    /\ w_ret = NotReturned

\* get_status up to the read loop (lines 492-515), and the whole of the
\* single request when --watch is not given (lines 610-636)
GetStatusStart ==
    /\ w_pc = "start"
    /\ LET api == APIClient(general_config, fs, NoPath)
       IN  IF ~w_env
           THEN /\ stdout' = Append(stdout, Line("env must be one of", <<>>))
                /\ process_exit' = 1
                /\ w_pc' = "exited"
                /\ UNCHANGED <<general_config, sent, w_ret>>
           ELSE IF ~watch
           THEN /\ general_config' = api.gc
                /\ IF api.exit # -1
                   THEN /\ stdout' = stdout \o
                            << Line("Getting status for deployment", <<>>),
                               Line(api.exc, <<>>) >>
                        /\ process_exit' = api.exit
                        /\ w_pc' = "exited"
                        /\ UNCHANGED <<sent, w_ret>>
                   ELSE /\ sent' = Append(sent,
                                 Request("GET", "/status/deployment/get", <<>>))
                        /\ \E code \in {200, 404}, m \in MarkerServices :
                             stdout' = stdout \o
                               << Line("Getting status for deployment", <<>>),
                                  IF code # 200
                                  THEN Line("Failed to get deployment status", <<>>)
                                  ELSE IF m = <<>>
                                  THEN Line("No services found", <<>>)
                                  ELSE Line("status", m) >>
                        /\ process_exit' = returns_normally
                        /\ w_pc' = "returned"
                        /\ w_ret' = Returned(<<>>)
           ELSE /\ general_config' = api.gc
                /\ IF api.exit # -1
                   THEN \* typer.Exit is caught by `except Exception`
                        /\ stdout' = stdout \o
                            << Line(api.exc, <<>>),
                               Line("Error streaming deployment status", <<>>) >>
                        /\ process_exit' = returns_normally
                        /\ w_pc' = "returned"
                        /\ w_ret' = Returned(<<>>)
                        /\ UNCHANGED sent
                   ELSE /\ stdout' = Append(stdout,
                                 Line("Streaming deployment status", <<>>))
                        /\ sent' = Append(sent,
                                 Request("GET", "/status/deployment/stream", <<>>))
                        /\ w_pc' = "reading"
                        /\ UNCHANGED <<process_exit, w_ret>>
    /\ UNCHANGED <<fs, w_env, watch, event, frames_read>>
    /\ UNCHANGED nonWatchVars

\* leaving the loop and the function: break, or an exception caught by one
\* of the handlers of lines 600-607
Stop(lines) ==
    /\ stdout' = stdout \o lines
    /\ w_pc' = "returned"
    /\ process_exit' = returns_normally
    /\ w_ret' = Returned(get_status_return(stdout \o lines))

Continue(lines) ==
    /\ stdout' = stdout \o lines
    /\ w_pc' = "reading"
    /\ UNCHANGED <<process_exit, w_ret>>

\* what a handler inside the loop does after writing its lines
After(lines, to) == IF to = "reading" THEN Continue(lines) ELSE Stop(lines)

\* one iteration of `for event in SSEClient(...)` (lines 516-592)
ReadFrame ==
    /\ w_pc = "reading"
    /\ frames_read < MaxFrames
    /\ \E e \in Events :
         /\ event' = e
         /\ IF e.kind = "empty"
            THEN Continue(<<>>)
            ELSE IF e.kind = "malformed"
            THEN After(<< Line("Error parsing status update", <<>>) >>,
                       on_JSONDecodeError)
            ELSE IF e.kind = "not_object"
            THEN Stop(<< Line("Error streaming deployment status", <<>>) >>)
            ELSE IF e.kind = "closed"
            THEN Stop(<< Line("Stream closed", <<>>) >>)
            ELSE IF e.kind = "not_found"
            THEN After(<< Line("Deployment not found", <<>>) >>,
                       on_deployment_not_found)
            ELSE IF e.services = <<>>
            THEN Continue(<< Line("No services found", <<>>) >>)
            ELSE LET screen == Line("screen",
                        displayed_services(e.services, last_screen(stdout)))
                 IN  IF has_validation_failed(e.services)
                     THEN Stop(<< screen,
                                  Line("Deployment failed due to validation failure", <<>>) >>)
                     ELSE Continue(<< screen >>)
    /\ frames_read' = frames_read + 1
    /\ UNCHANGED <<fs, general_config, sent, w_env, watch>>
    /\ UNCHANGED nonWatchVars

\* the server ends the stream: the for loop is exhausted
StreamEnds ==
    /\ w_pc = "reading"
    /\ Stop(<<>>)
    /\ UNCHANGED <<fs, general_config, sent, w_env, watch, event, frames_read>>
    /\ UNCHANGED nonWatchVars

\* Ctrl+C (lines 600-603)
Interrupt ==
    /\ w_pc = "reading"
    /\ Stop(<< Line("Stopped watching deployment status", <<>>) >>)
    /\ UNCHANGED <<fs, general_config, sent, w_env, watch, event, frames_read>>
    /\ UNCHANGED nonWatchVars

\* the connection drops while the loop waits for a frame (lines 604-607)
StreamError ==
    /\ w_pc = "reading"
    /\ Stop(<< Line("Error streaming deployment status", <<>>) >>)
    /\ UNCHANGED <<fs, general_config, sent, w_env, watch, event, frames_read>>
    /\ UNCHANGED nonWatchVars

WatchNext ==
    \/ GetStatusStart
    \/ ReadFrame
    \/ StreamEnds
    \/ Interrupt
    \/ StreamError

-----------------------------------------------------------------------------
(* register/register.py: register *)

\* what one request of the registration can come to: a response that
\* raise_for_status accepts, an HTTP error status, no connection, a timeout;
\* for /users/me also a 200 response without associatedAccount.id
Outcome(kind, status) == [kind |-> kind, status |-> status]
OkOutcome == Outcome("ok", 200)
IamOutcomes == {OkOutcome, Outcome("http", 409), Outcome("connection", 0)}
FetchOutcomes ==
    {OkOutcome, Outcome("no_account", 200), Outcome("http", 403),
     Outcome("http", 503), Outcome("connection", 0), Outcome("timeout", 0)}
CreateOutcomes ==
    {OkOutcome, Outcome("connection", 0), Outcome("timeout", 0)}
      \cup {Outcome("http", s) : s \in {400, 403, 409, 500, 503, 504}}
DeleteOutcomes == {OkOutcome, Outcome("http", 404), Outcome("connection", 0)}

\* the exception an attempt raises: raise_for_status gives HTTPError, the
\* session gives ConnectionError or Timeout, line 176 gives ValueError
Exc(type, status) == [type |-> type, status |-> status]
NoExc == Exc("", 0)
raised_by(o) ==
    IF o.kind = "http" THEN Exc("HTTPError", o.status)
    ELSE IF o.kind = "connection" THEN Exc("ConnectionError", 0)
    ELSE IF o.kind = "timeout" THEN Exc("Timeout", 0)
    ELSE IF o.kind = "no_account" THEN Exc("ValueError", 0)
    ELSE NoExc

\* requests.exceptions.RequestException and its subclasses
IsRequestException(e) == e.type \in {"HTTPError", "ConnectionError", "Timeout"}

\* retry=retry_if_exception_type((RequestException, ConnectionError))
retry_if_exception_type(e) == IsRequestException(e)

\* stop=stop_after_attempt(3)
stop_after_attempt == 3

\* what the @retry wrapper does with the exception of attempt number n:
\* another attempt (NoExc), the exception itself, or RetryError
retry(e, n) ==
    IF ~retry_if_exception_type(e) THEN e
    ELSE IF n < stop_after_attempt THEN NoExc
    ELSE Exc("RetryError", e.status)

\* bool(e.response): Response.__bool__ is Response.ok
response_truthy(status) == status < 400
\* e.response.status_code if e.response else None (None is 0 here)
status_code(e) == IF response_truthy(e.status) THEN e.status ELSE 0

\* the message of the handler of lines 227-334 that takes the exception
Category(e) ==
    IF e.type = "HTTPError"
    THEN IF status_code(e) = 409 THEN "already exists"
         ELSE IF status_code(e) = 400 THEN "invalid application data"
         ELSE IF status_code(e) = 403 THEN "access denied"
         ELSE IF status_code(e) \in {503, 504} THEN "temporarily unavailable"
         ELSE "unexpected error"
    ELSE IF e.type = "ConnectionError" THEN "unable to connect"
    ELSE IF e.type = "Timeout" THEN "timed out"
    ELSE IF e.type = "RetryError" THEN "unavailable after multiple attempts"
    ELSE "unexpected error"

\* the handlers of lines 180-205 around _fetch_account_id: what leaves
\* create_application_in_developer_studio
fetch_handlers(e) ==
    IF IsRequestException(e) \/ e.type = "ValueError" THEN Exc("Exit", 1) ELSE e

\* the handlers of lines 227-334 around _create: every exception leaves as
\* typer.Exit(1)
create_handlers(e) == Exc("Exit", 1)

\* `except typer.Exit` of line 358
rollback_never(e) == FALSE
except_typer_Exit(e) == e.type = "Exit"

NewApplicationId == "new-id"
ConfiguredIds == {"", "old-id"}

RegIdle ==
    /\ r_pc = "idle"
    /\ r_env = TRUE
    /\ config_file = [application_uid |-> ""]
    /\ application_details = [id |-> ""]
    /\ fetch_outcomes = <<>>
    /\ create_outcomes = <<>>

RegInit ==
    /\ fs \in {[f \in CredFiles |->
                  IF f = DefaultCredsFile THEN k ELSE "missing"] :
                      k \in {"valid", "missing", "no_key"}}
    /\ general_config = FreshConfig
    /\ sent = <<>>
    /\ stdout = <<>>
    /\ process_exit = -1
    /\ r_pc = "start"
    /\ r_env \in BOOLEAN
    /\ config_file \in {[application_uid |-> u] : u \in ConfiguredIds}
    /\ application_details = [id |-> ""]
    /\ fetch_outcomes = <<>>
    /\ create_outcomes = <<>>

Exits(code, lines) ==
    /\ stdout' = stdout \o lines
    /\ process_exit' = code

\* an exception nothing catches: the traceback, exit code 1
Crashes(e, lines) ==
    /\ r_pc' = "crashed"
    /\ Exits(1, lines \o << Line(e.type, <<>>) >>)

\* what register does with the exception that leaves
\* create_application_in_developer_studio (lines 356-364)
Propagates(e, lines) ==
    IF except_typer_Exit(e)
    THEN /\ r_pc' = "rollback"
         /\ stdout' = stdout \o lines \o << Line("Initiating rollback", <<>>) >>
         /\ UNCHANGED process_exit
    ELSE Crashes(e, lines)

\* the config file once create_application has returned: the id stays in
\* application_details, nothing is written before line 372
config_saved_on_iam_created(cfg, id) == [cfg EXCEPT !.application_uid = id]
config_on_iam_created(cfg, id) == cfg

\* register up to and including create_application (lines 347-353)
RegisterStart ==
    /\ r_pc = "start"
    /\ LET api == APIClient(general_config, fs, NoPath)
           uid == config_file.application_uid
           body == IF uid # "" THEN << <<"name", "app">>, <<"id", uid>> >>
                   ELSE << <<"name", "app">> >>
       IN  IF ~r_env
           THEN /\ r_pc' = "exited"
                /\ Exits(1, << Line("env must be one of", <<>>) >>)
                /\ UNCHANGED <<general_config, sent, application_details,
                               config_file>>
           ELSE IF api.exit # -1
           THEN /\ r_pc' = "exited"
                /\ general_config' = api.gc
                /\ Exits(api.exit, << Line(api.exc, <<>>) >>)
                /\ UNCHANGED <<sent, application_details, config_file>>
           ELSE /\ general_config' = api.gc
                /\ sent' = Append(sent,
                      Request("POST", "/cxp-iam/api/v1/applications", body))
                /\ \E o \in IamOutcomes :
                     IF o.kind = "ok"
                     THEN /\ application_details' =
                                [id |-> IF uid # "" THEN uid ELSE NewApplicationId]
                          /\ config_file' = config_on_iam_created(config_file,
                                IF uid # "" THEN uid ELSE NewApplicationId)
                          /\ stdout' = Append(stdout,
                                Line("Application created successfully", <<>>))
                          /\ r_pc' = "fetch"
                          /\ UNCHANGED process_exit
                     ELSE /\ r_pc' = "exited"
                          /\ Exits(1, << Line("Failed to create application", <<>>) >>)
                          /\ UNCHANGED <<application_details, config_file>>
    /\ UNCHANGED <<fs, r_env, fetch_outcomes, create_outcomes>>
    /\ UNCHANGED nonRegVars

\* one attempt of _fetch_account_id (lines 163-205)
FetchAttempt ==
    /\ r_pc = "fetch"
    /\ sent' = Append(sent, Request("GET", "/cxp-iam/api/v1/users/me", <<>>))
    /\ \E o \in FetchOutcomes :
         /\ fetch_outcomes' = Append(fetch_outcomes, o)
         /\ LET e == retry(raised_by(o), Len(fetch_outcomes) + 1)
            IN  IF o.kind = "ok"
                THEN /\ r_pc' = "create"
                     /\ UNCHANGED <<stdout, process_exit>>
                ELSE IF e = NoExc
                THEN UNCHANGED <<r_pc, stdout, process_exit>>
                ELSE Propagates(fetch_handlers(e),
                        IF fetch_handlers(e).type = "Exit"
                        THEN << Line("account information", <<>>) >>
                        ELSE <<>>)
    /\ UNCHANGED <<fs, general_config, r_env, config_file, application_details,
                   create_outcomes>>
    /\ UNCHANGED nonRegVars

\* one attempt of _create (lines 207-334)
CreateAttempt ==
    /\ r_pc = "create"
    /\ sent' = Append(sent,
          Request("POST", "/lifecycle/api/v1/deployment/applications",
                  << <<"id", application_details.id>> >>))
    /\ \E o \in CreateOutcomes :
         /\ create_outcomes' = Append(create_outcomes, o)
         /\ LET e == retry(raised_by(o), Len(create_outcomes) + 1)
            IN  IF o.kind = "ok"
                THEN /\ r_pc' = "save"
                     /\ UNCHANGED <<stdout, process_exit>>
                ELSE IF e = NoExc
                THEN UNCHANGED <<r_pc, stdout, process_exit>>
                ELSE Propagates(create_handlers(e),
                            << Line("Registration failed", <<>>),
                               Line(Category(e), <<>>) >>)
    /\ UNCHANGED <<fs, general_config, r_env, config_file, application_details,
                   fetch_outcomes>>
    /\ UNCHANGED nonRegVars

\* delete_application_from_iam and the exit of lines 364-370
Rollback ==
    /\ r_pc = "rollback"
    /\ sent' = Append(sent,
          Request("DELETE", "/cxp-iam/api/v1/applications",
                  << <<"id", application_details.id>> >>))
    /\ \E o \in DeleteOutcomes :
         Exits(1, (IF o.kind = "ok" THEN <<>>
                   ELSE << Line("Cleanup failed", <<>>) >>)
                  \o << Line("The application was not created", <<>>) >>)
    /\ r_pc' = "exited"
    /\ UNCHANGED <<fs, general_config, r_env, config_file, application_details,
                   fetch_outcomes, create_outcomes>>
    /\ UNCHANGED nonRegVars

\* save_config, assign_roles, generate_service_credentials (lines 372-380)
Finish ==
    /\ r_pc = "save"
    /\ config_file' = [config_file EXCEPT !.application_uid = application_details.id]
    /\ LET api == APIClient(general_config, fs, NoPath)
       IN  /\ general_config' = api.gc
           /\ \E o \in {"ok", "no services", "role refused"} :
                /\ sent' = sent
                     \o << Request("GET", "/schemas/get_platform_services", <<>>) >>
                     \o (IF o = "no services" THEN <<>>
                         ELSE << Request("PUT", "/cxp-iam/api/v1/users", <<>>) >>)
                /\ IF o = "ok"
                   THEN /\ r_pc' = "returned"
                        /\ Exits(returns_normally,
                              << Line("Updated application_uid in config file", <<>>),
                                 Line("Your Service account secret is", <<>>) >>)
                   ELSE /\ r_pc' = "exited"
                        /\ Exits(1,
                              << Line("Updated application_uid in config file", <<>>),
                                 Line(o, <<>>) >>)
    /\ UNCHANGED <<fs, r_env, application_details, fetch_outcomes, create_outcomes>>
    /\ UNCHANGED nonRegVars

RegNext ==
    \/ RegisterStart
    \/ FetchAttempt
    \/ CreateAttempt
    \/ Rollback
    \/ Finish

-----------------------------------------------------------------------------
(* ms/ms.py: grants_create, grants_delete, grants_list *)

GrantCommands == {"create", "delete", "list"}

GrantRoles == {"producer", "consumer"}
\* --group: not given (None), the empty string, a name, "*"
NoGroup == "<None>"
Groups == {NoGroup, "", "my-group", "*"}
\* `not group`
not_group(group) == group \in {NoGroup, ""}

GrantStatuses == {200, 201, 204, 404, 409, 500}
NoStatus == 0

\* the status of the first branch of each command (lines 83, 119, 152)
success_status(cmd) ==
    CASE cmd = "create" -> 201
      [] cmd = "delete" -> 204
      [] cmd = "list" -> 200

\* the status of the `elif` branch (lines 85, 121, 175): reported in
\* yellow, the command returns
benign_is_conflict(cmd) == 409
benign_status(cmd) ==
    CASE cmd = "create" -> 409
      [] cmd = "delete" -> 404
      [] cmd = "list" -> 404

\* the JSON object of a 200 answer of grants_list, by its "grants"
\* entry: absent, empty, one grant
GrantsBodies == {"absent", "empty", "one"}
\* `data.get("grants", [])`, as the number of grants listed
grants_of(body) == IF body = "one" THEN 1 ELSE 0

\* the JSON body of the POST (lines 72-77)
payload_always_with_group(app, role, group) ==
    << <<"app_id", app>>, <<"role", role>>, <<"consumer_group", group>> >>
grant_payload(app, role, group) ==
    << <<"app_id", app>>, <<"role", role>> >>
      \o (IF not_group(group) THEN <<>> ELSE << <<"consumer_group", group>> >>)

GrantsIdle ==
    /\ g_pc = "idle"
    /\ g_role = "producer"
    /\ g_group = NoGroup
    /\ g_env = TRUE
    /\ g_creds_path = NoPath
    /\ g_clients = 0
    /\ g_cmd = "create"
    /\ g_status = NoStatus

GrantsInit ==
    /\ fs \in {[f \in CredFiles |->
                  IF f = DefaultCredsFile THEN k
                  ELSE IF f = CustomCredsFile THEN c ELSE "missing"] :
                      k \in {"valid", "missing"}, c \in {"valid", "not_json"}}
    /\ general_config = FreshConfig
    /\ sent = <<>>
    /\ stdout = <<>>
    /\ process_exit = -1
    /\ g_pc = "start"
    /\ g_role \in GrantRoles
    /\ g_group \in Groups
    /\ g_env \in BOOLEAN
    /\ g_creds_path \in {NoPath, CustomCredsFile}
    /\ g_clients = 0
    /\ g_cmd \in GrantCommands
    /\ g_status = NoStatus

\* grants_create up to the construction of the client (lines 59-70)
GrantsCreateCheck ==
    /\ g_pc = "start"
    /\ g_cmd = "create"
    /\ LET api == APIClient(general_config, fs, g_creds_path)
       IN  IF g_role = "consumer" /\ not_group(g_group)
           THEN /\ g_pc' = "exited"
                /\ stdout' = Append(stdout,
                      Line("Consumer group is required for consumer role", <<>>))
                /\ process_exit' = 1
                /\ UNCHANGED <<general_config, g_clients>>
           ELSE IF ~g_env
           THEN /\ g_pc' = "exited"
                /\ stdout' = Append(stdout, Line("Unknown environment", <<>>))
                /\ process_exit' = 1
                /\ UNCHANGED <<general_config, g_clients>>
           ELSE /\ general_config' = api.gc
                /\ g_clients' = g_clients + 1
                /\ IF api.exit # -1
                   THEN /\ g_pc' = "exited"
                        /\ stdout' = Append(stdout, Line(api.exc, <<>>))
                        /\ process_exit' = api.exit
                   ELSE /\ g_pc' = "post"
                        /\ UNCHANGED <<stdout, process_exit>>
    /\ UNCHANGED <<fs, sent, g_role, g_group, g_env, g_creds_path, g_cmd,
                   g_status>>
    /\ UNCHANGED nonGrantVars

\* the request and its outcome (lines 72-93)
GrantsCreatePost ==
    /\ g_pc = "post"
    /\ sent' = Append(sent,
          Request("POST", "/topics/grants", grant_payload("app", g_role, g_group)))
    /\ \E code \in GrantStatuses :
         /\ g_status' = code
         /\ IF code = success_status(g_cmd)
            THEN /\ g_pc' = "returned"
                 /\ stdout' = stdout \o
                      << Line("Creating grant", <<>>),
                         Line("Grant created successfully", <<>>) >>
                 /\ process_exit' = returns_normally
            ELSE IF code = benign_status(g_cmd)
            THEN /\ g_pc' = "returned"
                 /\ stdout' = stdout \o
                      << Line("Creating grant", <<>>),
                         Line("Grant already exists", <<>>) >>
                 /\ process_exit' = returns_normally
            ELSE /\ g_pc' = "exited"
                 /\ stdout' = stdout \o
                      << Line("Creating grant", <<>>),
                         Line("Failed to create grant", <<>>) >>
                 /\ process_exit' = 1
    /\ UNCHANGED <<fs, general_config, g_role, g_group, g_env, g_creds_path,
                   g_clients, g_cmd>>
    /\ UNCHANGED nonGrantVars

\* grants_delete and grants_list up to the construction of the client
\* (lines 113 and 146)
GrantsClient ==
    /\ g_pc = "start"
    /\ g_cmd \in {"delete", "list"}
    /\ LET api == APIClient(general_config, fs, g_creds_path)
       IN  IF ~g_env
           THEN /\ g_pc' = "exited"
                /\ stdout' = Append(stdout, Line("Unknown environment", <<>>))
                /\ process_exit' = 1
                /\ UNCHANGED <<general_config, g_clients>>
           ELSE /\ general_config' = api.gc
                /\ g_clients' = g_clients + 1
                /\ IF api.exit # -1
                   THEN /\ g_pc' = "exited"
                        /\ stdout' = Append(stdout, Line(api.exc, <<>>))
                        /\ process_exit' = api.exit
                   ELSE /\ g_pc' = "request"
                        /\ UNCHANGED <<stdout, process_exit>>
    /\ UNCHANGED <<fs, sent, g_role, g_group, g_env, g_creds_path, g_cmd,
                   g_status>>
    /\ UNCHANGED nonGrantVars

\* grants_delete: the request and its outcome (lines 115-129)
GrantsDeleteRequest ==
    /\ g_pc = "request"
    /\ g_cmd = "delete"
    /\ sent' = Append(sent,
          Request("DELETE", "/topics/grants/app", << <<"role", g_role>> >>))
    /\ \E code \in GrantStatuses :
         /\ g_status' = code
         /\ IF code = success_status(g_cmd)
            THEN /\ g_pc' = "returned"
                 /\ stdout' = stdout \o
                      << Line("Deleting grant", <<>>),
                         Line("Grant deleted successfully", <<>>) >>
                 /\ process_exit' = returns_normally
            ELSE IF code = benign_status(g_cmd)
            THEN /\ g_pc' = "returned"
                 /\ stdout' = stdout \o
                      << Line("Deleting grant", <<>>),
                         Line("Grant not found", <<>>) >>
                 /\ process_exit' = returns_normally
            ELSE /\ g_pc' = "exited"
                 /\ stdout' = stdout \o
                      << Line("Deleting grant", <<>>),
                         Line("Failed to delete grant", <<>>) >>
                 /\ process_exit' = 1
    /\ UNCHANGED <<fs, general_config, g_role, g_group, g_env, g_creds_path,
                   g_clients, g_cmd>>
    /\ UNCHANGED nonGrantVars

\* grants_list: the request and its outcome (lines 148-183)
GrantsListRequest ==
    /\ g_pc = "request"
    /\ g_cmd = "list"
    /\ sent' = Append(sent, Request("GET", "/topics/grants", <<>>))
    /\ \E code \in GrantStatuses, body \in GrantsBodies :
         /\ g_status' = code
         /\ IF code = success_status(g_cmd)
            THEN /\ g_pc' = "returned"
                 /\ stdout' = stdout \o
                      << Line("Fetching grants", <<>>),
                         IF grants_of(body) = 0
                         THEN Line("No grants found for this topic", <<>>)
                         ELSE Line("Grants for topic", <<>>) >>
                 /\ process_exit' = returns_normally
            ELSE IF code = benign_status(g_cmd)
            THEN /\ g_pc' = "returned"
                 /\ stdout' = stdout \o
                      << Line("Fetching grants", <<>>),
                         Line("Topic not found", <<>>) >>
                 /\ process_exit' = returns_normally
            ELSE /\ g_pc' = "exited"
                 /\ stdout' = stdout \o
                      << Line("Fetching grants", <<>>),
                         Line("Failed to fetch grants", <<>>) >>
                 /\ process_exit' = 1
    /\ UNCHANGED <<fs, general_config, g_role, g_group, g_env, g_creds_path,
                   g_clients, g_cmd>>
    /\ UNCHANGED nonGrantVars

GrantsNext ==
    \/ GrantsCreateCheck
    \/ GrantsCreatePost
    \/ GrantsClient
    \/ GrantsDeleteRequest
    \/ GrantsListRequest

-----------------------------------------------------------------------------
(* helpers/api_client.py: the clients of one process, constructed one      *)
(* after another on the settings object they share                         *)

SessIdle ==
    /\ c_pc = "idle"
    /\ clients = <<>>

SessInit ==
    /\ fs \in [CredFiles -> {"valid", "empty_map", "missing"}]
    /\ general_config = FreshConfig
    /\ sent = <<>>
    /\ stdout = <<>>
    /\ process_exit = -1
    /\ c_pc = "session"
    /\ clients = <<>>

\* APIClient.__init__ (lines 9-24) with any creds_path; the Exit of
\* validate_creds ends the process
Construct ==
    /\ c_pc = "session"
    /\ Len(clients) < MaxClients
    /\ \E creds_path \in CredsPaths :
         LET api == APIClient(general_config, fs, creds_path)
         IN  /\ general_config' = api.gc
             /\ IF api.exit # -1
                THEN /\ c_pc' = "exited"
                     /\ stdout' = Append(stdout, Line(api.exc, <<>>))
                     /\ process_exit' = api.exit
                     /\ UNCHANGED clients
                ELSE /\ clients' = Append(clients,
                           [creds_path |-> creds_path,
                            service_credentials |-> api.service_credentials])
                     /\ UNCHANGED <<c_pc, stdout, process_exit>>
    /\ UNCHANGED <<fs, sent>>
    /\ UNCHANGED nonSessVars

-----------------------------------------------------------------------------
(* deploy/deploy.py: deploy, from its start to the upload pass *)

\* a version string is modelled by its fields, the result of split(".");
\* <<>> is the empty string (and None, where `not v` is all that is asked)
VersionFieldTexts == {"1", "9", "10", "x"}
\* int(part) succeeds
is_int(f) == f \in {"1", "9", "10"}
\* int(part)
int_of(f) == CASE f = "1" -> 1 [] f = "9" -> 9 [] f = "10" -> 10

\* `len(parts) != 3`, line 261
VersionFields == 3

NoTuple == <<>>
\* parse_version: the tuple of integers, or NoTuple where it raises Exit(1)
parse_version(v) ==
    IF Len(v) # VersionFields \/ \E i \in 1..Len(v) : ~ is_int(v[i])
    THEN NoTuple
    ELSE [i \in 1..Len(v) |-> int_of(v[i])]

\* a < b for tuples of integers of one length, as Python orders tuples
tuple_lt(a, b) ==
    \E k \in 1..Len(a) :
        (\A j \in 1..(k - 1) : a[j] = b[j]) /\ a[k] < b[k]

\* `requested_version <= last_version`, line 283
version_lower_only(req, last) == tuple_lt(req, last)
version_not_higher(req, last) == req = last \/ tuple_lt(req, last)

NoExit == -1

\* check_version_bump: the code of the Exit it raises, NoExit when it returns
check_version_bump(last_id, last_version, app_version) ==
    IF ~ last_id THEN NoExit
    ELSE IF last_version = <<>> THEN NoExit
    ELSE IF parse_version(app_version) = NoTuple THEN 1
    ELSE IF parse_version(last_version) = NoTuple THEN 1
    ELSE IF version_not_higher(parse_version(app_version),
                               parse_version(last_version)) THEN 1
    ELSE NoExit

\* is_metadata_update_valid, lines 320-330: description, lead developer
\* and name are checked before the version, the GitHub URL after it
is_metadata_update_valid(meta, server, app_version) ==
    IF ~ meta.pre_ok THEN 1
    ELSE IF check_version_bump(server.last_id, server.version, app_version) # NoExit
    THEN 1
    ELSE IF ~ meta.github_ok THEN 1
    ELSE NoExit

LocalVersions ==
    UNION {[1..n -> VersionFieldTexts] : n \in (VersionFields - 1)..VersionFields}
ServerVersions ==
    {<<>>, <<"1", "9">>} \cup [1..VersionFields -> {"1", "9", "10"}]
ServerData == [last_id : BOOLEAN, version : ServerVersions]
LocalMeta == [pre_ok : BOOLEAN, github_ok : BOOLEAN]

FrontIdle ==
    /\ d_pc = "idle"
    /\ d_app_version = <<>>
    /\ d_server = [last_id |-> FALSE, version |-> <<>>]
    /\ d_meta = [pre_ok |-> TRUE, github_ok |-> TRUE]
    /\ d_iam = NoStatus
    /\ d_ds = NoStatus
    /\ d_validated = FALSE
    /\ d_exit = NoExit

FrontInit ==
    /\ d_pc = "start"
    /\ d_app_version \in LocalVersions
    /\ d_server \in ServerData
    /\ d_meta \in LocalMeta
    /\ d_iam = NoStatus
    /\ d_ds = NoStatus
    /\ d_validated = FALSE
    /\ d_exit = NoExit

FrontExit(code) ==
    /\ d_pc' = "exited"
    /\ d_exit' = code

\* deploy, lines 366-417: environment, config, application id, client,
\* the application in IAM and in Developer Studio, and there either its
\* creation (404) or the validation of the local metadata
DeployCheck ==
    /\ d_pc = "start"
    /\ \E env_ok, app_id_ok, creds_ok, create_ok \in BOOLEAN :
       \E iam \in {200, 404}, ds \in {200, 404} :
         IF ~ env_ok \/ ~ app_id_ok \/ ~ creds_ok
         THEN /\ FrontExit(1)
              /\ UNCHANGED <<d_iam, d_ds, d_validated>>
         ELSE IF iam # 200
         THEN /\ FrontExit(1)
              /\ d_iam' = iam
              /\ UNCHANGED <<d_ds, d_validated>>
         ELSE IF ds = 404
         THEN /\ d_iam' = iam
              /\ d_ds' = ds
              /\ UNCHANGED d_validated
              /\ IF create_ok
                 THEN d_pc' = "checked" /\ UNCHANGED d_exit
                 ELSE FrontExit(1)
         ELSE /\ d_iam' = iam
              /\ d_ds' = ds
              /\ LET code == is_metadata_update_valid(d_meta, d_server,
                                                      d_app_version)
                 IN IF code # NoExit
                    THEN FrontExit(code) /\ UNCHANGED d_validated
                    ELSE /\ d_validated' = TRUE
                         /\ d_pc' = "checked"
                         /\ UNCHANGED d_exit
    /\ UNCHANGED <<d_app_version, d_server, d_meta>>
    /\ UNCHANGED nonFrontVars

\* deploy, lines 419-441: the second client and the deployment in
\* progress; past it deploy draws the run id and starts the upload pass
DeployInProgress ==
    /\ d_pc = "checked"
    /\ \E status \in {200, 500}, in_progress \in BOOLEAN :
         IF status = 200 /\ in_progress
         THEN FrontExit(1)
         ELSE d_pc' = "upload" /\ UNCHANGED d_exit
    /\ UNCHANGED <<d_app_version, d_server, d_meta, d_iam, d_ds, d_validated>>
    /\ UNCHANGED nonFrontVars

FrontNext ==
    \/ DeployCheck
    \/ DeployInProgress

-----------------------------------------------------------------------------
vars == <<injVars, uploadVars, clientVars, watchVars, regVars, grantVars,
          restVars>>

RestIdle == JoinIdle /\ FrontIdle /\ SessIdle

Init == UploadInit /\ InjIdle /\ ClientIdle /\ WatchIdle /\ RegIdle /\ GrantsIdle
            /\ RestIdle

Spec == Init /\ [][UploadNext]_vars

InitInject == InjInit /\ UploadIdle /\ ClientIdle /\ WatchIdle /\ RegIdle /\ GrantsIdle
            /\ RestIdle

NextInject == InjectCall

SpecInject == InitInject /\ [][NextInject]_vars

InitWatch == WatchInit /\ UploadIdle /\ InjIdle /\ RegIdle /\ GrantsIdle
            /\ RestIdle

NextWatch == WatchNext

SpecWatch == InitWatch /\ [][NextWatch]_vars

InitRegister == RegInit /\ UploadIdle /\ InjIdle /\ WatchIdle /\ GrantsIdle
            /\ RestIdle

NextRegister == RegNext

SpecRegister == InitRegister /\ [][NextRegister]_vars

InitGrants == GrantsInit /\ UploadIdle /\ InjIdle /\ WatchIdle /\ RegIdle
            /\ RestIdle

NextGrants == GrantsNext

SpecGrants == InitGrants /\ [][NextGrants]_vars

InitJoin == JoinInit /\ UploadIdle /\ InjIdle /\ ClientIdle /\ WatchIdle
            /\ RegIdle /\ GrantsIdle /\ FrontIdle /\ SessIdle

NextJoin == JoinCall

SpecJoin == InitJoin /\ [][NextJoin]_vars

InitFront == FrontInit /\ UploadIdle /\ InjIdle /\ ClientIdle /\ WatchIdle
             /\ RegIdle /\ GrantsIdle /\ JoinIdle /\ SessIdle

NextFront == FrontNext

SpecFront == InitFront /\ [][NextFront]_vars

InitClients == SessInit /\ UploadIdle /\ InjIdle /\ WatchIdle /\ RegIdle
               /\ GrantsIdle /\ JoinIdle /\ FrontIdle

NextClients == Construct

SpecClients == InitClients /\ [][NextClients]_vars

-----------------------------------------------------------------------------
(* Vocabulary of the properties *)

\* `".example" in file`, as validate.py skips example files
has_example_marker(name) == \E i \in 2..Len(name) : name[i] = "example"

RECURSIVE doc_tokens(_)
RECURSIVE items_tokens(_, _)
items_tokens(items, isDict) ==
    IF items = <<>> THEN {}
    ELSE doc_tokens(IF isDict THEN Head(items)[2] ELSE Head(items))
            \cup items_tokens(Tail(items), isDict)

\* the tokens of every string value of a document
doc_tokens(doc) ==
    IF doc.t = "str" THEN {doc.v[i] : i \in 1..Len(doc.v)}
    ELSE IF doc.t = "list" THEN items_tokens(doc.v, FALSE)
    ELSE IF doc.t = "dict" THEN items_tokens(doc.v, TRUE)
    ELSE {}

\* the variables ${LC.VAR} a document references
PlaceholderTokens == {Ph("LC", x) : x \in VarNames}
referenced_vars(doc) == {tok.name : tok \in doc_tokens(doc) \cap PlaceholderTokens}
PlaceholderFree(doc) == referenced_vars(doc) = {}

SeqSet(seq) == {seq[i] : i \in 1..Len(seq)}
Printed(kind) == \E i \in 1..Len(output) : output[i].kind = kind

PoolRan == upload_tasks # <<>>
Ended == pc \in {"returned", "exited"}
FailedTasks == {t \in Tasks : result[t] # <<>>}
PresignRefused(t) == \E i \in 1..Len(presign_resp[t]) :
                        presign_resp[t][i] < 200 \/ presign_resp[t][i] > 299
IsStructured(name) ==
    endswith(name, "json") \/ endswith(name, "yaml") \/ endswith(name, "yml")
FailureLines == {"Failed to generate presigned URL", "Upload failed", "Error uploading"}
FailureLinesPrinted ==
    Cardinality({i \in 1..Len(output) : output[i].kind \in FailureLines})

ManifestKey ==
    << <<"lifecycle">>, SLASH, <<"app">>, SLASH, <<"run">>, SLASH,
       <<"lifecycle_config", "yaml">> >>

-----------------------------------------------------------------------------
(* Properties of the upload pass *)

\* C1: when some selected service has a non-example file, the returned
\* payload has exactly the selected services that have an uploadable file as
\* its keys, the returned list is that same set, and a warning is printed
\* for each selected service left out.
C1_ExampleOnlyServicesDropped ==
    LET selected == SeqSet(services_to_deploy)
        uploadable(s) == {f \in config[s] : ~has_example_marker(f.name)}
        kept == {s \in selected : uploadable(s) # {}}
    IN (pc = "returned" /\ PoolRan /\ kept # {}) =>
          /\ DOMAIN ret.payload = kept
          /\ SeqSet(ret.services) = kept
          /\ \A s \in selected \ kept :
                \E i \in 1..Len(output) :
                    output[i].kind = "warning" /\ output[i].text = s

\* C2: a file whose name contains ".example" never becomes an upload task:
\* no presigned URL is requested for it and nothing is PUT for it.
C2_NoExampleFileUploaded ==
    \A t \in Tasks :
        has_example_marker(upload_tasks[t].file.name) =>
            presign_resp[t] = <<>> /\ puts[t] = <<>>

\* C3: an empty confirmed selection ends the run with exit code 0 and
\* without any request, and every failure outcome of the upload pass ends
\* it with exit code 1.
C3_EmptySelectionExitsZero ==
    /\ Printed("No services selected") =>
          /\ Ended => exit_code = 0
          /\ \A t \in Tasks : presign_resp[t] = <<>> /\ puts[t] = <<>>
    /\ (Ended /\ Printed("Upload errors:")) => exit_code = 1

\* C4: a task whose presigned-URL request is answered non-2xx ends with a
\* failure message and without a PUT, the other tasks still run to their
\* end, and when it is the only failing task of N exactly one failure
\* message is printed, the other N-1 uploads complete and the exit code is
\* non-zero.
C4_PresignFailureIsLocal ==
    /\ \A t \in Tasks : PresignRefused(t) =>
          /\ tstate[t] = "done"
          /\ result[t] # <<>>
          /\ result[t][1].kind = "Failed to generate presigned URL"
          /\ puts[t] = <<>>
    /\ (Ended /\ PoolRan) => \A t \in Tasks : tstate[t] = "done"
    /\ (Ended /\ PoolRan /\ \E t \in Tasks :
                PresignRefused(t) /\ FailedTasks = {t}) =>
          /\ Len(errors) = 1
          /\ FailureLinesPrinted = 1
          /\ \A u \in Tasks \ FailedTasks :
                Len(puts[u]) = 1 /\ puts[u][1].status = 200
          /\ pc = "exited" /\ exit_code > 0

C4_Witness ==
    /\ pc = "exited"
    /\ Len(upload_tasks) >= 3
    /\ \E t \in Tasks : PresignRefused(t) /\ FailedTasks = {t}

\* C5: the outcome is decided only once every task has completed and been
\* collected; with failed tasks the process exits non-zero and prints one
\* failure message per failed task, with none it returns the payload
\* mapping and the service list.
C5_OutcomeAfterAllTasks ==
    (Ended /\ PoolRan) =>
        /\ \A t \in Tasks : tstate[t] = "done" /\ collected[t] = 1
        /\ FailedTasks # {} =>
              /\ pc = "exited" /\ exit_code > 0
              /\ Len(errors) = Cardinality(FailedTasks)
              /\ \A t \in FailedTasks :
                    Cardinality({i \in 1..Len(output) :
                        output[i].kind \in FailureLines /\ output[i].task = t}) = 1
              /\ FailureLinesPrinted = Cardinality(FailedTasks)
        /\ FailedTasks = {} =>
              /\ pc = "returned"
              /\ ret = [payload |-> build_services_payload(services_to_deploy),
                        services |-> services_to_deploy]

C5_Witness ==
    /\ pc = "exited"
    /\ Cardinality(FailedTasks) >= 2
    /\ \E t \in Tasks : result[t] = <<>> /\ puts[t] # <<>>

\* C6: at most 4 tasks execute at any moment, and every submitted task is
\* executed once and collected once.
C6_BoundedPool ==
    /\ Cardinality(Running) <= 4
    /\ \A t \in Tasks : exec_count[t] <= 1 /\ collected[t] <= 1
    /\ (Ended /\ PoolRan) =>
          \A t \in Tasks : exec_count[t] = 1 /\ collected[t] = 1

C6_Witness ==
    /\ Cardinality(Running) = 4
    /\ next_task <= Len(upload_tasks)
    /\ tstate[next_task] = "queued"

\* C7: for a non-empty selection the task list holds exactly one manifest
\* task, keyed lifecycle/{appId}/{runId}/lifecycle_config.yaml, and it is
\* the last task.
C7_ManifestTaskLast ==
    (services_to_deploy # <<>> /\ (pc = "pool" \/ (Ended /\ PoolRan))) =>
        /\ upload_tasks[Len(upload_tasks)].s3_key = ManifestKey
        /\ upload_tasks[Len(upload_tasks)].folder = "lifecycle"
        /\ upload_tasks[Len(upload_tasks)].file.name = <<"lifecycle_config", "yaml">>
        /\ Cardinality({t \in Tasks : upload_tasks[t].s3_key = ManifestKey}) = 1
        /\ Cardinality({t \in Tasks : upload_tasks[t].folder = "lifecycle"}) = 1

C7_Witness ==
    /\ pc = "pool"
    /\ Len(upload_tasks) >= 4
    /\ Len(services_to_deploy) = 2

\* C8: what is PUT for a .json, .yaml or .yml file is the re-serialised
\* document with its placeholders substituted from the env file, and what
\* is PUT for any other file is the raw content.
C8_StructuredFilesInjected ==
    \A t \in Tasks : \A i \in 1..Len(puts[t]) :
        LET f == upload_tasks[t].file
            body == puts[t][i].body
        IN IF IsStructured(f.name)
           THEN /\ body.fmt \in {"json", "yaml"}
                /\ body.doc = replace_in_obj(f.content, env_vars).val
                /\ referenced_vars(f.content) \subseteq DOMAIN env_vars
           ELSE body = Content("raw", f.content)

\* C9: a structured file that references a variable the env file lacks ends
\* its task with a failure message naming a missing variable and nothing is
\* PUT for it, while every other task still runs to its end.
C9_MissingVariableFailsTask ==
    /\ \A t \in Tasks :
        LET f == upload_tasks[t].file
            missing == referenced_vars(f.content) \ DOMAIN env_vars
        IN (IsStructured(f.name) /\ missing # {}) =>
              /\ puts[t] = <<>>
              /\ (tstate[t] = "done" /\ ~PresignRefused(t)) =>
                    /\ result[t] # <<>>
                    /\ result[t][1].kind = "Error uploading"
                    /\ result[t][1].text \in missing
    /\ (Ended /\ PoolRan) => \A t \in Tasks : tstate[t] = "done"

-----------------------------------------------------------------------------
(* Properties of the injection *)

\* C10: injection leaves a document without placeholder tokens unchanged,
\* whatever the environment mapping.
C10_InjectionIdentity ==
    (inj_pc = "done" /\ PlaceholderFree(data)) => injected_data = Ok(data)

C10_Witness ==
    /\ inj_pc = "done"
    /\ PlaceholderFree(data)
    /\ data.t = "dict"
    /\ Ph("XX", "A") \in doc_tokens(data)
    /\ "A" \in DOMAIN inj_env

-----------------------------------------------------------------------------
(* Properties of the status watcher (deploy get-status --watch) *)

\* a status of the success or the failure family: no further transition
is_terminal(status) == status \in {"Done", "Failed", "Validation Failed"}

AllTerminal(services) ==
    /\ Len(services) = Len(ServiceNames)
    /\ \A i \in 1..Len(services) : is_terminal(services[i][2])

ShownTerminal(services, s) ==
    \E i \in 1..Len(services) : services[i][1] = s /\ is_terminal(services[i][2])

Shows(services, s) == \E i \in 1..Len(services) : services[i][1] = s

LastLine == stdout[Len(stdout)]

\* the step that takes one frame from the stream
TakesFrame == w_pc = "reading" /\ frames_read' = frames_read + 1

\* the frames on which the loop is left: the closed marker, the not-found
\* error, a frame that is no JSON object, a service in "Validation Failed"
StopFrame(e) ==
    \/ e.kind \in {"closed", "not_found", "not_object"}
    \/ /\ e.kind = "services"
       /\ \E i \in 1..Len(e.services) : e.services[i][2] = "Validation Failed"

C13_MalformedFrameSkipped ==
    [][(TakesFrame /\ event'.kind = "malformed")
          => /\ w_pc' = "reading"
             /\ stdout' = Append(stdout, Line("Error parsing status update", <<>>))
             /\ last_screen(stdout') = last_screen(stdout)
             /\ UNCHANGED <<process_exit, w_ret, sent>>]_vars

C13_Witness ==
    \E i, j \in 1..Len(stdout) :
        /\ i < j
        /\ stdout[i].msg = "screen"
        /\ stdout[i + 1].msg = "Error parsing status update"
        /\ stdout[j].msg = "screen"
        /\ j > i + 1

\* C14: the frame {"error": "Deployment not found"} ends the watch at
\* once: the only thing written is the not-found line, none of the
\* services the frame carries reaches the screen, no snapshot is returned
\* and no later frame is read.
C14_NotFoundStops ==
    [][(TakesFrame /\ event'.kind = "not_found")
          => /\ w_pc' = "returned"
             /\ stdout' = Append(stdout, Line("Deployment not found", <<>>))
             /\ w_ret' = Returned(<<>>)
             /\ process_exit' = 0]_vars

C14_Witness ==
    /\ event = Event("not_found", << <<"svc1", "Done">> >>)
    /\ w_pc = "returned"
    /\ LastLine = Line("Deployment not found", <<>>)

-----------------------------------------------------------------------------
(* Properties of register *)

RegEnded == r_pc \in {"returned", "exited", "crashed"}

LastOf(seq) == seq[Len(seq)]

\* the downstream create was attempted and its last attempt failed
CreateFailed == create_outcomes # <<>> /\ LastOf(create_outcomes).kind # "ok"

Deletes == {i \in 1..Len(sent) : sent[i].method = "DELETE"}

Is4xx(o) == o.kind = "http" /\ o.status >= 400 /\ o.status < 500

Wrote(msg) == \E i \in 1..Len(stdout) : stdout[i].msg = msg

\* the message the handler of lines 229-290 has for an HTTP status
MessageOfStatus(status) ==
    IF status = 409 THEN "already exists"
    ELSE IF status = 400 THEN "invalid application data"
    ELSE IF status = 403 THEN "access denied"
    ELSE IF status \in {503, 504} THEN "temporarily unavailable"
    ELSE "unexpected error"

\* C16: when the IAM record was created and the downstream create failed,
\* after its third attempt or on an error response, the run has ended
\* with exactly one DELETE, the one for that IAM record, and exit code
\* non-zero; no run sends more than one DELETE.
C16_RollbackOnCreateFailure ==
    /\ Cardinality(Deletes) <= 1
    /\ (RegEnded /\ CreateFailed)
          => /\ Cardinality(Deletes) = 1
             /\ \A i \in Deletes :
                    sent[i].body = << <<"id", application_details.id>> >>
             /\ application_details.id # ""
             /\ process_exit > 0

C16_Witness ==
    /\ r_pc = "exited"
    /\ Len(create_outcomes) = stop_after_attempt
    /\ LastOf(create_outcomes) = Outcome("http", 409)
    /\ Cardinality(Deletes) = 1

\* C17: the account-ID fetch and the downstream create are each attempted
\* at most 3 times, and an attempt answered with a 4xx status is the last
\* attempt of its call.
C17_NoRetryAfter4xx ==
    /\ Len(fetch_outcomes) <= 3
    /\ Len(create_outcomes) <= 3
    /\ \A i \in 1..Len(fetch_outcomes) :
          Is4xx(fetch_outcomes[i]) => i = Len(fetch_outcomes)
    /\ \A i \in 1..Len(create_outcomes) :
          Is4xx(create_outcomes[i]) => i = Len(create_outcomes)

\* C18: when the downstream create has failed with an HTTP error status,
\* the message written is the one of that status: 409 already exists, 400
\* invalid data, 403 access denied, 503/504 temporarily unavailable, any
\* other status the unexpected-error message.
C18_CategoryByStatus ==
    (/\ r_pc \in {"rollback", "exited"}
     /\ CreateFailed
     /\ LastOf(create_outcomes).kind = "http")
        => Wrote(MessageOfStatus(LastOf(create_outcomes).status))

-----------------------------------------------------------------------------
(* Properties of the API client and of ms grants create *)

\* C19: a command that constructs its API client on a credentials file
\* that is missing, is not JSON, lacks serviceAccounts or holds no mapping
\* there ends with exit code 1 and has sent no request.
C19_BadCredentialsExitOne ==
    (/\ w_pc \in {"returned", "exited"}
     /\ w_env
     /\ fs[DefaultCredsFile] \in BadFiles)
        => (process_exit = 1 /\ sent = <<>>)

\* C20: grants_create for role consumer without a group ends with exit
\* code 1 having constructed no API client, read no credentials and sent no
\* request; for role producer without a group that check does not stop
\* the command, and the one request it sends has the body {app_id, role}
\* with no consumer_group field.
C20_ConsumerNeedsGroup ==
    /\ (g_pc \notin {"idle", "start"} /\ g_cmd = "create"
            /\ g_role = "consumer" /\ g_group \in {NoGroup, ""})
          => /\ g_pc = "exited"
             /\ process_exit = 1
             /\ g_clients = 0
             /\ general_config = FreshConfig
             /\ sent = <<>>
    /\ (g_cmd = "create" /\ g_role = "producer" /\ g_group = NoGroup)
          => /\ ~ Wrote("Consumer group is required for consumer role")
             /\ Len(sent) <= 1
             /\ \A i \in 1..Len(sent) :
                    sent[i].body = << <<"app_id", "app">>, <<"role", "producer">> >>
             /\ (g_pc \in {"post", "returned"} => g_clients = 1)

C20_Witness ==
    /\ g_pc = "exited"
    /\ g_cmd = "create"
    /\ g_role = "consumer"
    /\ g_group = NoGroup
    /\ g_env
    /\ fs[DefaultCredsFile] = "valid"
    /\ process_exit = 1
    /\ sent = <<>>

\* C21: each grants command sends exactly one request and its outcome is
\* decided by the status of the answer: grants_create returns normally on
\* 201 and 409, grants_delete on 204 and 404, grants_list on 200 and 404;
\* on every other status the command ends with exit code 1.
C21_StatusDecidesOutcome ==
    /\ Len(sent) <= 1
    /\ g_pc = "returned" => g_status # NoStatus
    /\ g_status # NoStatus =>
         /\ Len(sent) = 1
         /\ sent[1].method = (CASE g_cmd = "create" -> "POST"
                                [] g_cmd = "delete" -> "DELETE"
                                [] g_cmd = "list" -> "GET")
         /\ IF \/ g_cmd = "create" /\ g_status \in {201, 409}
               \/ g_cmd = "delete" /\ g_status \in {204, 404}
               \/ g_cmd = "list" /\ g_status \in {200, 404}
            THEN g_pc = "returned" /\ process_exit = 0
            ELSE g_pc = "exited" /\ process_exit = 1

C21_Witness ==
    /\ g_cmd = "delete"
    /\ g_status = 404
    /\ g_pc = "returned"
    /\ Len(sent) = 1

\* the names of a string, in order, without its separators
names_of(p) == SelectSeq(p, LAMBDA c : c \notin {SLASH, BACKSLASH})

RECURSIVE concat(_)
concat(parts) == IF parts = <<>> THEN <<>> ELSE Head(parts) \o concat(Tail(parts))

\* C22: whatever the parts, the key join_s3_path returns holds no
\* backslash, neither starts nor ends with a slash, and is the names of the
\* parts in their order with single forward slashes between them.
C22_CleanKey ==
    j_pc = "done" =>
        /\ \A i \in 1..Len(j_key) : j_key[i] # BACKSLASH
        /\ j_key # <<>> => (j_key[1] # SLASH /\ j_key[Len(j_key)] # SLASH)
        /\ \A i \in 1..(Len(j_key) - 1) :
               ~ (j_key[i] = SLASH /\ j_key[i + 1] = SLASH)
        /\ names_of(j_key) = names_of(concat(j_parts))

\* what the requests of task t were answered decides its failure message:
\* a refused presign, an exception before the PUT, a refused PUT, or none
failure_of(t) ==
    IF presign_resp[t] # <<>> /\ presign_resp[t][Len(presign_resp[t])] # 200
    THEN {Msg("Failed to generate presigned URL", t, "")}
    ELSE IF Raised(put_body(upload_tasks[t], env_vars))
    THEN {Msg("Error uploading", t, put_body(upload_tasks[t], env_vars).err[1])}
    ELSE IF puts[t] # <<>> /\ puts[t][Len(puts[t])].status # 200
    THEN {Msg("Upload failed", t, "")}
    ELSE {}

\* C23: a step of an upload task changes only that task's own state and
\* leaves the error list, the completion counter, the env mapping, the
\* configuration and the credentials alone; the error list and the counter
\* change only in the coordinating loop; and when the pass has ended the
\* set of failure messages and the exit outcome are those the answers to
\* the tasks' requests decide, whatever the order the tasks ran and were
\* collected in.
C23_InterleavingFree ==
    /\ [][(pc = "pool" /\ (tstate' # tstate \/ result' # result
                               \/ presign_resp' # presign_resp
                               \/ puts' # puts))
             => /\ \E t \in Tasks :
                      \A u \in Tasks \ {t} :
                          /\ tstate'[u] = tstate[u]
                          /\ result'[u] = result[u]
                          /\ presign_resp'[u] = presign_resp[u]
                          /\ puts'[u] = puts[u]
                /\ UNCHANGED <<errors, completed_count, collected, config,
                               env_vars, general_config, fs, output>>]_vars
    /\ [][(errors' # errors \/ completed_count' # completed_count)
             => (collected' # collected /\ UNCHANGED <<tstate, result>>)]_vars
    /\ [] ((pc \in {"returned", "exited"} /\ upload_tasks # <<>>) =>
              /\ {errors[i] : i \in 1..Len(errors)}
                    = UNION {failure_of(t) : t \in Tasks}
              /\ Len(errors) = Cardinality(UNION {failure_of(t) : t \in Tasks})
              /\ completed_count = Len(upload_tasks)
              /\ (pc = "exited") = (errors # <<>>)
              /\ (pc = "exited") => exit_code = 1
              /\ (pc = "returned") => exit_code = -1)

C23_Witness ==
    /\ pc = "exited"
    /\ Len(errors) = 2
    /\ errors[1].task > errors[2].task

\* C27: POST /msk/deploy is sent only after every upload task, the service
\* files and the manifest, has completed without a failure; when a task
\* failed or the upload pass ended in any other way, no deploy request is
\* sent.
C27_DeployAfterUploads ==
    /\ Len(deploy_posts) <= 1
    /\ deploy_posts # <<>> =>
          /\ upload_tasks # <<>>
          /\ \E t \in Tasks : upload_tasks[t].file.name = CONFIG_FILE
          /\ \A t \in Tasks : tstate[t] = "done" /\ collected[t] = 1
                                  /\ failure_of(t) = {}
    /\ pc = "exited" => deploy_posts = <<>>

\* C28: no POST /msk/deploy carries an empty services mapping: with no
\* core services in the configuration, or with no service selected, the
\* run ends without a deploy request.
C28_NoEmptyDeploy ==
    /\ \A i \in 1..Len(deploy_posts) : DOMAIN deploy_posts[i].services # {}
    /\ (pc \notin {"start", "pool"}
          /\ (DOMAIN config = {} \/ services_to_deploy = <<>>))
            => deploy_posts = <<>>

\* the value of a version field written in digits
Digits == [f \in {"1", "9", "10"} |-> IF f = "1" THEN 1 ELSE IF f = "9" THEN 9 ELSE 10]
IsXYZ(v) == Len(v) = 3 /\ \A i \in 1..3 : v[i] \in DOMAIN Digits
\* v is higher than w in (major, minor, patch) order
Higher(v, w) ==
    \/ Digits[v[1]] > Digits[w[1]]
    \/ Digits[v[1]] = Digits[w[1]] /\ Digits[v[2]] > Digits[w[2]]
    \/ Digits[v[1]] = Digits[w[1]] /\ Digits[v[2]] = Digits[w[2]]
          /\ Digits[v[3]] > Digits[w[3]]
LastDeployed == d_server.last_id /\ d_server.version # <<>>

\* C24: when Developer Studio reports a last successful deployment with a
\* version, the metadata validation passes only if the local app_version
\* is three integers x.y.z and higher than that version in (major, minor,
\* patch) order; a version that is equal, lower or not x.y.z ends the run
\* with exit code 1 before the upload pass; when there is no last
\* successful deployment the version is not looked at.
C24_VersionMustRise ==
    /\ (d_validated /\ LastDeployed)
          => /\ IsXYZ(d_app_version)
             /\ IsXYZ(d_server.version)
             /\ Higher(d_app_version, d_server.version)
    /\ (d_ds = 200 /\ LastDeployed
          /\ (~ IsXYZ(d_app_version)
                \/ (IsXYZ(d_server.version)
                      /\ ~ Higher(d_app_version, d_server.version))))
          => (d_pc = "exited" /\ d_exit = 1 /\ ~ d_validated /\ pc = "idle")
    /\ (d_ds = 200 /\ ~ d_server.last_id /\ d_meta.pre_ok /\ d_meta.github_ok)
          => d_validated

C24_Witness ==
    /\ d_pc = "upload"
    /\ d_validated
    /\ d_app_version = <<"1", "10", "1">>
    /\ d_server = [last_id |-> TRUE, version |-> <<"1", "9", "1">>]

\* create_application has returned the details of the IAM record
IamCreated == application_details.id # ""
\* the last attempt of the downstream create succeeded
DownstreamCreated == create_outcomes # <<>> /\ LastOf(create_outcomes).kind = "ok"

\* C25: register sends no DELETE for an IAM application that existed
\* before the invocation, that is for an id the config file already held.
C25_NoDeleteOfExisting ==
    \A i \in Deletes :
        \A u \in ConfiguredIds \ {""} : sent[i].body # << <<"id", u>> >>

\* C26: a register run in which the IAM create succeeded ends either with
\* the downstream record created and the application_uid saved, or with a
\* DELETE for the IAM record sent.
C26_SavedOrDeleted ==
    (RegEnded /\ IamCreated)
        => \/ DownstreamCreated
              /\ config_file.application_uid = application_details.id
           \/ \E i \in Deletes :
                 sent[i].body = << <<"id", application_details.id>> >>

\* C30: register writes the config file only once the IAM create and the
\* downstream create have both succeeded, and then with the id IAM
\* returned; a run in which either failed ends with the application_uid
\* the file held at the start.
C30_ConfigWrittenLast ==
    /\ [][config_file' # config_file
            => /\ IamCreated
               /\ DownstreamCreated
               /\ config_file'.application_uid = application_details.id]_vars
    /\ [] ((RegEnded /\ ~ (IamCreated /\ DownstreamCreated))
              => config_file.application_uid \in ConfiguredIds)

C30_Witness ==
    /\ r_pc = "exited"
    /\ application_details.id = NewApplicationId
    /\ ~ DownstreamCreated
    /\ Deletes # {}
    /\ config_file.application_uid = ""

\* the file the creds_path of a client stands for: the default file when
\* the path is omitted, credentials.json inside a directory
own_file(creds_path) ==
    IF creds_path = NoPath THEN DefaultCredsFile
    ELSE IF creds_path = CredsDir THEN DirCredsFile
    ELSE creds_path

\* C29: whatever clients were constructed before it, each client sends
\* the credentials of the file its own creds_path stands for,
\* ~/.cx-cli/credentials.json when the path is omitted.
C29_OwnCredentials ==
    \A i \in 1..Len(clients) :
        clients[i].service_credentials =
            service_accounts(own_file(clients[i].creds_path),
                             fs[own_file(clients[i].creds_path)])

=============================================================================
